---------------------------- MODULE Spec2Model ----------------------------
(***************************************************************************)
(* Todo Application backend: registration and login (api/v1/auth.py), the  *)
(* JWT utilities (core/security.py), the bearer gate                       *)
(* (middleware/auth_middleware.py), the six task endpoints                 *)
(* (api/v1/tasks.py) and the task service (services/task_service.py) over  *)
(* the users and tasks tables (models/database.py).                        *)
(*                                                                         *)
(* Conventions.  An Optional[...] result is a sequence of length <= 1:     *)
(* <<>> is Python's None, <<x>> is x.  A nullable text column holds Null.  *)
(* A textual identifier (a path segment, a token subject) is a pair        *)
(* <<spelling, n>>: Str(n) is the canonical text str(uuid) of identifier   *)
(* n, <<"upper", n>> another spelling uuid.UUID() accepts, <<"bad", 0>> a  *)
(* text uuid.UUID() rejects.  Time is counted in days.                     *)
(***************************************************************************)
EXTENDS Integers, Sequences, FiniteSets, TLC

VARIABLES users, tasks, ntasks, now, tokens, sess, last

vars == <<users, tasks, ntasks, now, tokens, sess, last>>

-----------------------------------------------------------------------------
(* Bounds of the model *)

\* uuid4 values handed out to tasks in one behaviour
MaxTasks == 2

\* the clock stops here in the task specification
MaxTime == 1

\* login tokens kept by clients in one behaviour
MaxTokens == 2

\* fields named by one TaskUpdate body in the claims about update_task
MaxFields == 2

\* tasks the concurrent service instances work on
MaxShared == 1

Emails == {"a@x", "A@x"}

Passwords == {"secret1", "secret2"}

Titles == {"a", "b"}

Null == "NULL"

Descriptions == {Null, "d"}

Priorities == {"low", "medium", "high"}

Instances == {1, 2}

-----------------------------------------------------------------------------
(* Program constants *)

\* timedelta(days=7), the default of create_access_token
DEFAULT_TTL_DAYS == 7

\* access_token_expires = timedelta(days=7) in login_user
LOGIN_TTL_DAYS == 7

SECRET == "BETTER_AUTH_SECRET"

-----------------------------------------------------------------------------
(* Identifiers *)

Str(n) == <<"canon", n>>

BadText == <<"bad", 0>>

\* uuid.UUID(text): <<n>>, or <<>> for the ValueError
UUID(text) == IF text[1] \in {"canon", "upper"} THEN <<text[2]>> ELSE <<>>

-----------------------------------------------------------------------------
(* core/security.py *)

\* pwd_context.hash: a salted one-way digest; only verify relates it to p
get_password_hash(password) == [scheme |-> "pbkdf2_sha256", of |-> password]

\* a verify that looks at the scheme of the hash only
verify_password_scheme_only(plain_password, hashed_password) ==
    hashed_password.scheme = "pbkdf2_sha256"

verify_password(plain_password, hashed_password) ==
    hashed_password.scheme = "pbkdf2_sha256" /\ hashed_password.of = plain_password

\* data: [sub, email]; expires_delta: <<>> or <<days>>; t: datetime.utcnow().
\* "if expires_delta" is false for None and for a zero timedelta.
create_access_token(data, expires_delta, t) ==
    LET expire == IF expires_delta # <<>> /\ expires_delta[1] # 0
                  THEN t + expires_delta[1]
                  ELSE t + DEFAULT_TTL_DAYS
    IN  [sub |-> data.sub, email |-> data.email, exp |-> expire, sig |-> SECRET]

\* jwt.decode with verify_exp off: the signature is all that is verified
verify_token_no_expiry(token, t) ==
    IF token.sig = SECRET
    THEN <<[sub |-> token.sub, email |-> token.email, exp |-> token.exp]>>
    ELSE <<>>

\* jwt.decode: the payload, or <<>> for any PyJWTError (bad signature,
\* malformed, exp <= now)
verify_token(token, t) ==
    IF token.sig = SECRET /\ token.exp > t
    THEN <<[sub |-> token.sub, email |-> token.email, exp |-> token.exp]>>
    ELSE <<>>

-----------------------------------------------------------------------------
(* middleware/auth_middleware.py *)

NoHeader == [scheme |-> "", credentials |-> <<>>]

Lower(scheme) == IF scheme = "Bearer" THEN "bearer"
                 ELSE IF scheme = "Basic" THEN "basic" ELSE scheme

Rejected(code, why) == [status |-> code, detail |-> why, token_data |-> <<>>]

\* a gate that decodes the bearer token's claims without verifying it
JWTBearer_unverified(header, t) ==
    IF header.scheme = "" \/ header.credentials = <<>>
    THEN Rejected(401, "Not authenticated")
    ELSE IF Lower(header.scheme) # "bearer"
    THEN Rejected(401, "Invalid authentication credentials")
    ELSE IF header.scheme # "Bearer"
    THEN Rejected(401, "Invalid authentication scheme.")
    ELSE [status |-> 200, detail |-> "",
          token_data |-> <<[sub |-> header.credentials[1].sub,
                            email |-> header.credentials[1].email,
                            exp |-> header.credentials[1].exp]>>]

\* JWTBearer.__call__.  HTTPBearer.__call__ (auto_error=True) raises for a
\* missing header and for a scheme that is not "bearer" in any case (with
\* status 401, as FastAPI 0.122 and later do; earlier releases answer 403);
\* the subclass then wants the scheme spelled "Bearer" and a token that
\* verifies.
JWTBearer(header, t) ==
    IF header.scheme = "" \/ header.credentials = <<>>
    THEN Rejected(401, "Not authenticated")
    ELSE IF Lower(header.scheme) # "bearer"
    THEN Rejected(401, "Invalid authentication credentials")
    ELSE IF header.scheme # "Bearer"
    THEN Rejected(401, "Invalid authentication scheme.")
    ELSE LET token_data == verify_token(header.credentials[1], t)
         IN  IF token_data = <<>>
             THEN Rejected(401, "Invalid token or expired token.")
             ELSE [status |-> 200, detail |-> "", token_data |-> token_data]

-----------------------------------------------------------------------------
(* models/database.py and the statements SQLAlchemy's unit of work emits *)

Columns == {"title", "description", "completed", "priority"}

\* every column an assignment to a Task attribute can change
Attributes == Columns \cup {"id", "user_id"}

\* Task(...) flushed as an INSERT: a None attribute is left out of the
\* statement, so the column default applies (completed False, priority
\* "medium"); id is uuid4(), updated_at is func.now().
InsertTask(newid, user_id, title, description, completed, priority, t) ==
    [id |-> newid, user_id |-> user_id, title |-> title,
     description |-> description, completed |-> completed,
     priority |-> IF priority = Null THEN "medium" ELSE priority,
     updated_at |-> t]

\* the attributes whose value differs from the loaded one: the only columns
\* an UPDATE names
Dirty(loaded, obj) == {c \in Attributes : obj[c] # loaded[c]}

\* a commit that writes the dirty columns one statement at a time and keeps
\* those written before the one that fails
FlushUpdate_per_column(ts, loaded, obj, t) ==
    LET dirty == Dirty(loaded, obj)
        rows  == {r \in ts : r.id = loaded.id}
    IN  IF dirty = {} THEN [tasks |-> ts, fault |-> FALSE]
        ELSE IF rows = {} THEN [tasks |-> ts, fault |-> TRUE]
        ELSE LET old == CHOOSE r \in rows : TRUE
                 new == [c \in DOMAIN old |->
                            IF c \in dirty /\ ~(c = "title" /\ obj.title = Null) THEN obj[c]
                            ELSE IF c = "updated_at" THEN t
                            ELSE old[c]]
             IN  [tasks |-> (ts \ {old}) \cup {new}, fault |-> obj.title = Null]

\* commit() of a modified instance against store ts at time t:
\* [tasks, fault].  Nothing dirty: no statement.  Otherwise
\* UPDATE tasks SET <dirty columns>, updated_at = now() WHERE id = :id, which
\* fails on a NULL title (IntegrityError) and when no row matches
\* (StaleDataError); a failed commit is rolled back.
FlushUpdate(ts, loaded, obj, t) ==
    LET dirty == Dirty(loaded, obj)
        rows  == {r \in ts : r.id = loaded.id}
    IN  IF dirty = {} THEN [tasks |-> ts, fault |-> FALSE]
        ELSE IF obj.title = Null \/ rows = {}
        THEN [tasks |-> ts, fault |-> TRUE]
        ELSE LET old == CHOOSE r \in rows : TRUE
                 new == [c \in DOMAIN old |->
                            IF c \in dirty THEN obj[c]
                            ELSE IF c = "updated_at" THEN t
                            ELSE old[c]]
             IN  [tasks |-> (ts \ {old}) \cup {new}, fault |-> FALSE]

\* commit() of a deleted instance: DELETE FROM tasks WHERE id = :id; a row
\* count of 0 is only warned about
FlushDelete(ts, loaded) == {r \in ts : r.id # loaded.id}

\* session.refresh(task): the row by primary key, <<>> when it is gone
\* (InvalidRequestError)
Refresh(ts, loaded) ==
    LET rows == {r \in ts : r.id = loaded.id}
    IN  IF rows = {} THEN <<>> ELSE <<CHOOSE r \in rows : TRUE>>

-----------------------------------------------------------------------------
(* services/task_service.py.  Each operation returns [ret, tasks, fault]:   *)
(* the return value, the store afterwards, and whether it raised.           *)

\* get_task_by_id without the user_id conjunct of its filter
get_task_by_id_any_owner(ts, user_id, task_id) ==
    LET rows == {r \in ts : r.id = task_id}
    IN  IF rows = {} THEN <<>> ELSE <<CHOOSE r \in rows : TRUE>>

get_task_by_id(ts, user_id, task_id) ==
    LET rows == {r \in ts : r.user_id = user_id /\ r.id = task_id}
    IN  IF rows = {} THEN <<>> ELSE <<CHOOSE r \in rows : TRUE>>

\* get_tasks_by_user without the "incomplete" branch of the status filter
get_tasks_by_user_completed_only(ts, user_id, status, priority) ==
    LET q0 == {r \in ts : r.user_id = user_id}
        q1 == IF status = <<"completed">> THEN {r \in q0 : r.completed = TRUE} ELSE q0
    IN  IF priority # <<>> /\ priority[1] # ""
        THEN {r \in q1 : r.priority = priority[1]}
        ELSE q1

\* status, priority: <<>> or <<text>>; "if status" is false for "" too
get_tasks_by_user(ts, user_id, status, priority) ==
    LET q0 == {r \in ts : r.user_id = user_id}
        q1 == IF status # <<>> /\ status[1] # ""
              THEN IF status[1] = "completed" THEN {r \in q0 : r.completed = TRUE}
                   ELSE IF status[1] = "incomplete" THEN {r \in q0 : r.completed = FALSE}
                   ELSE q0
              ELSE q0
    IN  IF priority # <<>> /\ priority[1] # ""
        THEN {r \in q1 : r.priority = priority[1]}
        ELSE q1

\* create_task with the id taken from the number of stored rows
create_task_count_id(ts, user_id, task_data, newid, t) ==
    LET task == InsertTask(Cardinality(ts) + 1, user_id, task_data.title,
                           task_data.description, task_data.completed,
                           task_data.priority, t)
    IN  [ret |-> <<task>>, tasks |-> ts \cup {task}, fault |-> FALSE]

create_task(ts, user_id, task_data, newid, t) ==
    LET task == InsertTask(newid, user_id, task_data.title, task_data.description,
                           task_data.completed, task_data.priority, t)
    IN  [ret |-> <<task>>, tasks |-> ts \cup {task}, fault |-> FALSE]

\* SetAttrs over task_data.dict(): a field the body leaves out arrives with
\* its schema default, so an unnamed priority becomes "medium"
SetAttrs_schema_defaults(task, update_data) ==
    [c \in DOMAIN task |->
        IF c \in Columns /\ c \in DOMAIN update_data THEN update_data[c]
        ELSE IF c = "priority" THEN "medium"
        ELSE task[c]]

\* task_data.dict(exclude_unset=True) is task_data itself: a function whose
\* domain is the set of fields the request body names.  setattr assigns
\* whatever field the dict holds; on "tags" it sets no column.
SetAttrs(task, update_data) ==
    [c \in DOMAIN task |->
        IF c \in Attributes /\ c \in DOMAIN update_data THEN update_data[c] ELSE task[c]]

update_task(ts, user_id, task_id, task_data, t) ==
    LET found == get_task_by_id(ts, user_id, task_id)
    IN  IF found = <<>> THEN [ret |-> <<>>, tasks |-> ts, fault |-> FALSE]
        ELSE LET done == FlushUpdate(ts, found[1], SetAttrs(found[1], task_data), t)
             IN  IF done.fault THEN [ret |-> <<>>, tasks |-> done.tasks, fault |-> TRUE]
                 ELSE [ret |-> Refresh(done.tasks, found[1]), tasks |-> done.tasks,
                       fault |-> FALSE]

\* delete_task that reports success without issuing the DELETE
delete_task_keep_row(ts, user_id, task_id) ==
    LET found == get_task_by_id(ts, user_id, task_id)
    IN  IF found = <<>> THEN [ret |-> FALSE, tasks |-> ts, fault |-> FALSE]
        ELSE [ret |-> TRUE, tasks |-> ts, fault |-> FALSE]

delete_task(ts, user_id, task_id) ==
    LET found == get_task_by_id(ts, user_id, task_id)
    IN  IF found = <<>> THEN [ret |-> FALSE, tasks |-> ts, fault |-> FALSE]
        ELSE [ret |-> TRUE, tasks |-> FlushDelete(ts, found[1]), fault |-> FALSE]

\* toggle_task_completion that rebuilds the row from the schema defaults,
\* so that priority falls back to "medium"
toggle_task_completion_reset_priority(ts, user_id, task_id, completed, t) ==
    LET found == get_task_by_id(ts, user_id, task_id)
    IN  IF found = <<>> THEN [ret |-> <<>>, tasks |-> ts, fault |-> FALSE]
        ELSE LET obj  == [found[1] EXCEPT !.completed = completed, !.priority = "medium"]
                 done == FlushUpdate(ts, found[1], obj, t)
             IN  IF done.fault THEN [ret |-> <<>>, tasks |-> done.tasks, fault |-> TRUE]
                 ELSE [ret |-> Refresh(done.tasks, found[1]), tasks |-> done.tasks,
                       fault |-> FALSE]

toggle_task_completion(ts, user_id, task_id, completed, t) ==
    LET found == get_task_by_id(ts, user_id, task_id)
    IN  IF found = <<>> THEN [ret |-> <<>>, tasks |-> ts, fault |-> FALSE]
        ELSE LET obj  == [found[1] EXCEPT !.completed = completed]
                 done == FlushUpdate(ts, found[1], obj, t)
             IN  IF done.fault THEN [ret |-> <<>>, tasks |-> done.tasks, fault |-> TRUE]
                 ELSE [ret |-> Refresh(done.tasks, found[1]), tasks |-> done.tasks,
                       fault |-> FALSE]

-----------------------------------------------------------------------------
(* api/v1/tasks.py.  A response is [status, detail, data, db, tasks]: db is *)
(* the number of task-service calls the handler made, tasks the store after *)
(* it.  A request body has passed schema validation before the handler.     *)

Response(status, detail, data, db, ts) ==
    [status |-> status, detail |-> detail, data |-> data, db |-> db, tasks |-> ts]

\* the subject a handler compares with the path: token_data.get("sub")
Sub(gate) == gate.token_data[1].sub

get_tasks(ts, header, user_id, status, priority, t) ==
    LET gate == JWTBearer(header, t)
    IN  IF gate.status # 200 THEN Response(gate.status, gate.detail, <<>>, 0, ts)
        ELSE IF Sub(gate) # user_id
        THEN Response(401, "Unauthorized access to these tasks", <<>>, 0, ts)
        ELSE IF UUID(user_id) = <<>>
        THEN Response(400, "Invalid user ID format", <<>>, 0, ts)
        ELSE Response(200, "",
                      <<get_tasks_by_user(ts, UUID(user_id)[1], status, priority)>>,
                      1, ts)

\* create_task without the comparison of the token's subject with the path
create_task_endpoint_path_owner(ts, header, user_id, task_data, newid, t) ==
    LET gate == JWTBearer(header, t)
    IN  IF gate.status # 200 THEN Response(gate.status, gate.detail, <<>>, 0, ts)
        ELSE IF UUID(user_id) = <<>>
        THEN Response(400, "Invalid user ID format", <<>>, 0, ts)
        ELSE LET r == create_task(ts, UUID(user_id)[1], task_data, newid, t)
             IN  Response(200, "", r.ret, 1, r.tasks)

create_task_endpoint(ts, header, user_id, task_data, newid, t) ==
    LET gate == JWTBearer(header, t)
    IN  IF gate.status # 200 THEN Response(gate.status, gate.detail, <<>>, 0, ts)
        ELSE IF Sub(gate) # user_id
        THEN Response(401, "Unauthorized to create tasks for this user", <<>>, 0, ts)
        ELSE IF UUID(user_id) = <<>>
        THEN Response(400, "Invalid user ID format", <<>>, 0, ts)
        ELSE LET r == create_task(ts, UUID(user_id)[1], task_data, newid, t)
             IN  Response(200, "", r.ret, 1, r.tasks)

\* get_task that looks the task up before it compares the token's subject
\* with the path
get_task_lookup_first(ts, header, user_id, task_id, t) ==
    LET gate == JWTBearer(header, t)
    IN  IF gate.status # 200 THEN Response(gate.status, gate.detail, <<>>, 0, ts)
        ELSE IF UUID(user_id) = <<>> \/ UUID(task_id) = <<>>
        THEN Response(400, "Invalid user or task ID format", <<>>, 0, ts)
        ELSE LET task == get_task_by_id(ts, UUID(user_id)[1], UUID(task_id)[1])
             IN  IF task = <<>> THEN Response(404, "Task not found", <<>>, 1, ts)
                 ELSE IF Sub(gate) # user_id
                 THEN Response(401, "Unauthorized access to this task", <<>>, 1, ts)
                 ELSE Response(200, "", task, 1, ts)

get_task(ts, header, user_id, task_id, t) ==
    LET gate == JWTBearer(header, t)
    IN  IF gate.status # 200 THEN Response(gate.status, gate.detail, <<>>, 0, ts)
        ELSE IF Sub(gate) # user_id
        THEN Response(401, "Unauthorized access to this task", <<>>, 0, ts)
        ELSE IF UUID(user_id) = <<>> \/ UUID(task_id) = <<>>
        THEN Response(400, "Invalid user or task ID format", <<>>, 0, ts)
        ELSE LET task == get_task_by_id(ts, UUID(user_id)[1], UUID(task_id)[1])
             IN  IF task = <<>> THEN Response(404, "Task not found", <<>>, 1, ts)
                 ELSE Response(200, "", task, 1, ts)

update_task_endpoint(ts, header, user_id, task_id, task_data, t) ==
    LET gate == JWTBearer(header, t)
    IN  IF gate.status # 200 THEN Response(gate.status, gate.detail, <<>>, 0, ts)
        ELSE IF Sub(gate) # user_id
        THEN Response(401, "Unauthorized to update this task", <<>>, 0, ts)
        ELSE IF UUID(user_id) = <<>> \/ UUID(task_id) = <<>>
        THEN Response(400, "Invalid user or task ID format", <<>>, 0, ts)
        ELSE LET r == update_task(ts, UUID(user_id)[1], UUID(task_id)[1], task_data, t)
             IN  IF r.fault THEN Response(500, "Internal Server Error", <<>>, 1, r.tasks)
                 ELSE IF r.ret = <<>> THEN Response(404, "Task not found", <<>>, 1, r.tasks)
                 ELSE Response(200, "", r.ret, 1, r.tasks)

delete_task_endpoint(ts, header, user_id, task_id, t) ==
    LET gate == JWTBearer(header, t)
    IN  IF gate.status # 200 THEN Response(gate.status, gate.detail, <<>>, 0, ts)
        ELSE IF Sub(gate) # user_id
        THEN Response(401, "Unauthorized to delete this task", <<>>, 0, ts)
        ELSE IF UUID(user_id) = <<>> \/ UUID(task_id) = <<>>
        THEN Response(400, "Invalid user or task ID format", <<>>, 0, ts)
        ELSE LET r == delete_task(ts, UUID(user_id)[1], UUID(task_id)[1])
             IN  IF ~r.ret THEN Response(404, "Task not found", <<>>, 1, r.tasks)
                 ELSE Response(200, "Task deleted successfully", <<>>, 1, r.tasks)

toggle_task_completion_endpoint(ts, header, user_id, task_id, completed, t) ==
    LET gate == JWTBearer(header, t)
    IN  IF gate.status # 200 THEN Response(gate.status, gate.detail, <<>>, 0, ts)
        ELSE IF Sub(gate) # user_id
        THEN Response(401, "Unauthorized to update this task", <<>>, 0, ts)
        ELSE IF UUID(user_id) = <<>> \/ UUID(task_id) = <<>>
        THEN Response(400, "Invalid user or task ID format", <<>>, 0, ts)
        ELSE LET r == toggle_task_completion(ts, UUID(user_id)[1], UUID(task_id)[1],
                                             completed, t)
             IN  IF r.fault THEN Response(500, "Internal Server Error", <<>>, 1, r.tasks)
                 ELSE IF r.ret = <<>> THEN Response(404, "Task not found", <<>>, 1, r.tasks)
                 ELSE Response(200, "", r.ret, 1, r.tasks)

-----------------------------------------------------------------------------
(* api/v1/auth.py.  A user row is [id, email, hashed_password].             *)

\* db.query(UserModel).filter(UserModel.email == email).first()
UserByEmail(us, email) ==
    LET rows == {u \in us : u.email = email}
    IN  IF rows = {} THEN <<>> ELSE <<CHOOSE u \in rows : TRUE>>

\* the INSERT on a users table without the unique index on email
InsertUser_no_unique_index(us, row) ==
    IF \E u \in us : u.id = row.id
    THEN [users |-> us, fault |-> TRUE]
    ELSE [users |-> us \cup {row}, fault |-> FALSE]

\* commit() of a new User: INSERT INTO users, refused by the unique index on
\* email (IntegrityError)
InsertUser(us, row) ==
    IF \E u \in us : u.email = row.email \/ u.id = row.id
    THEN [users |-> us, fault |-> TRUE]
    ELSE [users |-> us \cup {row}, fault |-> FALSE]

\* [status, detail, data, users]
register_user(us, user_data, newid) ==
    IF UserByEmail(us, user_data.email) # <<>>
    THEN [status |-> 400, detail |-> "A user with this email already exists",
          data |-> <<>>, users |-> us]
    ELSE LET row  == [id |-> newid, email |-> user_data.email,
                      hashed_password |-> get_password_hash(user_data.password)]
             done == InsertUser(us, row)
         IN  IF done.fault
             THEN [status |-> 500, detail |-> "Internal Server Error",
                   data |-> <<>>, users |-> done.users]
             ELSE [status |-> 200, detail |-> "",
                   data |-> <<[id |-> row.id, email |-> row.email]>>,
                   users |-> done.users]

\* [status, detail, data]: data is <<access_token>>
login_user(us, email, password, t) ==
    LET user == UserByEmail(us, email)
    IN  IF user = <<>> \/ ~verify_password(password, user[1].hashed_password)
        THEN [status |-> 401, detail |-> "Incorrect email or password", data |-> <<>>]
        ELSE [status |-> 200, detail |-> "",
              data |-> <<create_access_token(
                            [sub |-> Str(user[1].id), email |-> user[1].email],
                            <<LOGIN_TTL_DAYS>>, t)>>]

\* [status, detail, data]
get_current_user(us, header, t) ==
    LET gate == JWTBearer(header, t)
    IN  IF gate.status # 200
        THEN [status |-> gate.status, detail |-> gate.detail, data |-> <<>>]
        ELSE IF UUID(Sub(gate)) = <<>>
        THEN [status |-> 400, detail |-> "Invalid user ID format", data |-> <<>>]
        ELSE LET rows == {u \in us : u.id = UUID(Sub(gate))[1]}
             IN  IF rows = {}
                 THEN [status |-> 404, detail |-> "User not found", data |-> <<>>]
                 ELSE LET u == CHOOSE u \in rows : TRUE
                      IN  [status |-> 200, detail |-> "",
                           data |-> <<[id |-> u.id, email |-> u.email]>>]

-----------------------------------------------------------------------------
(* What clients send *)

Garbage == [sub |-> BadText, email |-> "", exp |-> 0, sig |-> "malformed"]

\* a token signed with another key, claims and expiry as in an issued one
Forged(token) == [token EXCEPT !.sig = "forged"]

Bearer(token) == [scheme |-> "Bearer", credentials |-> <<token>>]

\* every kind of Authorization header: none, other schemes, "bearer" in
\* lower case, garbage, forged and issued tokens
AllHeaders ==
    {NoHeader, Bearer(Garbage), [scheme |-> "Basic", credentials |-> <<Garbage>>]}
    \cup {Bearer(k) : k \in tokens}
    \cup {Bearer(Forged(k)) : k \in tokens}
    \cup {[scheme |-> "bearer", credentials |-> <<k>>] : k \in tokens}

\* the headers of clients that logged in
LoginHeaders == {Bearer(k) : k \in tokens}

UserTexts == {Str(n) : n \in 1 .. Cardinality(Emails)} \cup {BadText}

TaskTexts == {Str(n) : n \in 1 .. MaxTasks} \cup {BadText}

Fields == Columns \cup {"tags"}

\* a TaskUpdate that keeps the keys of the body the schema does not declare
TaskUpdate_extra_allowed(body) == body

\* TaskUpdate parsed from a request body: the schema declares the five
\* fields only and a key it does not declare is ignored
TaskUpdate(body) == [f \in DOMAIN body \cap Fields |-> body[f]]

\* TaskUpdate bodies with every field given (JSON null is Null)
FullBodies == [title : Titles \cup {Null}, description : Descriptions,
               completed : BOOLEAN, priority : Priorities, tags : {<<"x">>}]

\* TaskUpdate bodies naming at most n of the fields fs: what
\* dict(exclude_unset=True) keeps of a body is the fields it names
UpdateBodies(fs, n) ==
    {[f \in x |-> full[f]] :
        full \in FullBodies, x \in {y \in SUBSET fs : Cardinality(y) <= n}}

\* TaskCreate bodies
CreateBodies(titles, descriptions, completeds, priorities) ==
    [title : titles, description : descriptions, completed : completeds,
     priority : priorities]

\* the schema's defaults for the fields a request body may leave out
TaskBaseDefaults == [description |-> Null, completed |-> FALSE, priority |-> "medium"]

\* TaskCreate parsed from a request body (a function on the fields the body
\* names, title among them): a field left out takes its default
TaskCreate(body) ==
    [f \in {"title", "description", "completed", "priority"} |->
        IF f \in DOMAIN body THEN body[f] ELSE TaskBaseDefaults[f]]

\* the request bodies of a creation: a title and any of the other fields
CreateRequests ==
    {[f \in x \cup {"title"} |-> full[f]] :
        full \in [title : Titles, description : Descriptions,
                  completed : BOOLEAN, priority : Priorities],
        x \in SUBSET {"description", "completed", "priority"}}

Filters(texts) == {<<>>} \cup {<<x>> : x \in texts}

-----------------------------------------------------------------------------
(* The state machine.  last is the latest completed request with its        *)
(* outcome: [op, status, case, db], where case says what the request was    *)
(* aimed at (see Case) and db counts the service calls its handler made.    *)

Last(op, status, case, db) == [op |-> op, status |-> status, case |-> case, db |-> db]

\* what a (user, task) pair of identifiers points at in store ts, n task ids
\* having been handed out: a row of the user's ("own"), a row of another
\* user ("foreign"), a row since deleted ("deleted"), or nothing ever
Target(ts, n, user, task) ==
    IF \E r \in ts : r.id = task /\ r.user_id = user THEN "own"
    ELSE IF \E r \in ts : r.id = task THEN "foreign"
    ELSE IF task \in 1 .. n THEN "deleted"
    ELSE "absent"

\* What a request to a task endpoint is aimed at: "unauthenticated" (the gate
\* rejects the header), "mismatch" (verified subject other than the path's
\* owner; "mismatch_hit" when the path names a stored task of that owner),
\* "malformed" (an identifier uuid.UUID rejects), else the Target of the path.
\* task_id is <<>> for the two endpoints without one.
Case(header, user_id, task_id) ==
    LET gate == JWTBearer(header, now)
    IN  IF gate.status # 200 THEN "unauthenticated"
        ELSE IF Sub(gate) # user_id
        THEN IF UUID(user_id) # <<>> /\ task_id # <<>> /\ UUID(task_id[1]) # <<>>
                /\ Target(tasks, ntasks, UUID(user_id)[1], UUID(task_id[1])[1]) = "own"
             THEN "mismatch_hit" ELSE "mismatch"
        ELSE IF UUID(user_id) = <<>> \/ (task_id # <<>> /\ UUID(task_id[1]) = <<>>)
        THEN "malformed"
        ELSE IF task_id = <<>> THEN "own"
        ELSE Target(tasks, ntasks, UUID(user_id)[1], UUID(task_id[1])[1])

Idle == [pc |-> "idle"]

Init ==
    /\ users = {}
    /\ tasks = {}
    /\ ntasks = 0
    /\ now = 0
    /\ tokens = {}
    /\ sess = [i \in Instances |-> Idle]
    /\ last = Last("none", 0, "", 0)

Tick(times) ==
    /\ \E t \in times : t > now /\ now' = t
    /\ UNCHANGED <<users, tasks, ntasks, tokens, sess, last>>

Register(emails, passwords) ==
    \E email \in emails, password \in passwords :
        \E r \in {register_user(users, [email |-> email, password |-> password],
                                Cardinality(users) + 1)} :
            /\ users' = r.users
            /\ last' = Last("register", r.status, "", 1)
            /\ UNCHANGED <<tasks, ntasks, now, tokens, sess>>

\* the token of a successful login is kept by the client
Login(passwords) ==
    \E email \in Emails, password \in passwords :
        \E r \in {login_user(users, email, password, now)} :
            /\ r.status = 200 => Cardinality(tokens \cup {r.data[1]}) <= MaxTokens
            /\ tokens' = IF r.status = 200 THEN tokens \cup {r.data[1]} ELSE tokens
            /\ last' = Last("login", r.status, "", 1)
            /\ UNCHANGED <<users, tasks, ntasks, now, sess>>

Me(headers) ==
    \E header \in headers :
        \E r \in {get_current_user(users, header, now)} :
            /\ last' = Last("me", r.status,
                            IF JWTBearer(header, now).status # 200
                            THEN "unauthenticated" ELSE "own",
                            IF r.status \in {200, 404} THEN 1 ELSE 0)
            /\ UNCHANGED <<users, tasks, ntasks, now, tokens, sess>>

ListTasks(headers, statuses, priorities) ==
    \E header \in headers, user_id \in UserTexts,
       status \in Filters(statuses), priority \in Filters(priorities) :
        \E r \in {get_tasks(tasks, header, user_id, status, priority, now)} :
            /\ last' = Last("get_tasks", r.status, Case(header, user_id, <<>>), r.db)
            /\ UNCHANGED <<users, tasks, ntasks, now, tokens, sess>>

\* a request the handler rejects before it reads the body is sent once
CreateTask(headers, bodies) ==
    /\ ntasks < MaxTasks
    /\ \E header \in headers, user_id \in UserTexts :
        \E task_data \in IF Case(header, user_id, <<>>) = "own"
                         THEN bodies ELSE {CHOOSE b \in bodies : TRUE} :
            \E r \in {create_task_endpoint(tasks, header, user_id, task_data,
                                           ntasks + 1, now)} :
                /\ tasks' = r.tasks
                /\ ntasks' = IF r.db = 1 THEN ntasks + 1 ELSE ntasks
                /\ last' = Last("create_task", r.status, Case(header, user_id, <<>>), r.db)
                /\ UNCHANGED <<users, now, tokens, sess>>

GetTask(headers) ==
    \E header \in headers, user_id \in UserTexts, task_id \in TaskTexts :
        \E r \in {get_task(tasks, header, user_id, task_id, now)} :
            /\ last' = Last("get_task", r.status, Case(header, user_id, <<task_id>>), r.db)
            /\ UNCHANGED <<users, tasks, ntasks, now, tokens, sess>>

UpdateTask(headers, bodies) ==
    \E header \in headers, user_id \in UserTexts, task_id \in TaskTexts :
        \E task_data \in IF Case(header, user_id, <<task_id>>) = "own"
                         THEN bodies ELSE {<<>>} :
            \E r \in {update_task_endpoint(tasks, header, user_id, task_id,
                                           task_data, now)} :
                /\ tasks' = r.tasks
                /\ last' = Last("update_task", r.status,
                                Case(header, user_id, <<task_id>>), r.db)
                /\ UNCHANGED <<users, ntasks, now, tokens, sess>>

DeleteTask(headers) ==
    \E header \in headers, user_id \in UserTexts, task_id \in TaskTexts :
        \E r \in {delete_task_endpoint(tasks, header, user_id, task_id, now)} :
            /\ tasks' = r.tasks
            /\ last' = Last("delete_task", r.status,
                            Case(header, user_id, <<task_id>>), r.db)
            /\ UNCHANGED <<users, ntasks, now, tokens, sess>>

ToggleTask(headers) ==
    \E header \in headers, user_id \in UserTexts, task_id \in TaskTexts,
       completed \in BOOLEAN :
        \E r \in {toggle_task_completion_endpoint(tasks, header, user_id, task_id,
                                                  completed, now)} :
            /\ tasks' = r.tasks
            /\ last' = Last("toggle_task_completion", r.status,
                            Case(header, user_id, <<task_id>>), r.db)
            /\ UNCHANGED <<users, ntasks, now, tokens, sess>>

\* The API of one service process: a handler (an async def without an await)
\* runs to completion before the next request is served.
Next ==
    \/ Register(Emails, {"secret1"})
    \/ Login({"secret1"})
    \/ Me(LoginHeaders)
    \/ ListTasks(LoginHeaders, {"completed"}, {})
    \/ CreateTask(LoginHeaders, CreateBodies({"a"}, {Null}, {FALSE}, {Null, "low"}))
    \/ GetTask(LoginHeaders)
    \/ UpdateTask(LoginHeaders, {[title |-> Null], [tags |-> <<"x">>],
                                 TaskUpdate([user_id |-> 2])})
    \/ DeleteTask(LoginHeaders)
    \/ ToggleTask(LoginHeaders)

Spec == Init /\ [][Next]_vars

-----------------------------------------------------------------------------
(* The task service called directly, as the handlers call it once the gate  *)
(* and the owner check have passed: user_id is the id of a registered user. *)
(* The outcome is recorded as the handler renders it: 200 for a returned    *)
(* task, list or True, 404 for None or False, 500 when the call raises.     *)

Owners == {u.id : u \in users}

TaskIds == 1 .. MaxTasks

Rendered(r) == IF r.fault THEN 500 ELSE IF r.ret = <<>> THEN 404 ELSE 200

\* what a listing returned: nothing ("absent"), all of the user's rows
\* ("own"), or some of them only ("subset")
ListCase(ts, user_id, rows) ==
    IF rows = {} THEN "absent"
    ELSE IF rows = {r \in ts : r.user_id = user_id} THEN "own" ELSE "subset"

SvcCreate(bodies) ==
    /\ ntasks < MaxTasks
    /\ \E user_id \in Owners, task_data \in bodies :
        \E r \in {create_task(tasks, user_id, task_data, ntasks + 1, now)} :
            /\ tasks' = r.tasks
            /\ ntasks' = ntasks + 1
            /\ last' = Last("create_task", 200, "own", 1)
            /\ UNCHANGED <<users, now, tokens, sess>>

SvcGet ==
    \E user_id \in Owners, task_id \in TaskIds :
        /\ last' = Last("get_task_by_id",
                        IF get_task_by_id(tasks, user_id, task_id) = <<>> THEN 404 ELSE 200,
                        Target(tasks, ntasks, user_id, task_id), 1)
        /\ UNCHANGED <<users, tasks, ntasks, now, tokens, sess>>

SvcList(statuses, priorities) ==
    \E user_id \in Owners, status \in Filters(statuses), priority \in Filters(priorities) :
        /\ last' = Last("get_tasks_by_user", 200,
                        ListCase(tasks, user_id,
                                 get_tasks_by_user(tasks, user_id, status, priority)), 1)
        /\ UNCHANGED <<users, tasks, ntasks, now, tokens, sess>>

SvcUpdate(bodies) ==
    \E user_id \in Owners, task_id \in TaskIds, task_data \in bodies :
        \E r \in {update_task(tasks, user_id, task_id, task_data, now)} :
            /\ tasks' = r.tasks
            /\ last' = Last("update_task", Rendered(r), Target(tasks, ntasks, user_id, task_id), 1)
            /\ UNCHANGED <<users, ntasks, now, tokens, sess>>

SvcDelete ==
    \E user_id \in Owners, task_id \in TaskIds :
        \E r \in {delete_task(tasks, user_id, task_id)} :
            /\ tasks' = r.tasks
            /\ last' = Last("delete_task", IF r.ret THEN 200 ELSE 404,
                            Target(tasks, ntasks, user_id, task_id), 1)
            /\ UNCHANGED <<users, ntasks, now, tokens, sess>>

SvcToggle ==
    \E user_id \in Owners, task_id \in TaskIds, completed \in BOOLEAN :
        \E r \in {toggle_task_completion(tasks, user_id, task_id, completed, now)} :
            /\ tasks' = r.tasks
            /\ last' = Last("toggle_task_completion", Rendered(r),
                            Target(tasks, ntasks, user_id, task_id), 1)
            /\ UNCHANGED <<users, ntasks, now, tokens, sess>>

NextRepo ==
    \/ Tick(0 .. MaxTime)
    \/ Register(Emails, {"secret1"})
    \/ SvcCreate(CreateBodies({"a"}, {Null}, {FALSE}, {Null, "high"})
                    \cup {TaskCreate([title |-> "a"])})
    \/ SvcGet
    \/ SvcList({"completed"}, {"high"})
    \/ SvcUpdate({[title |-> "b"], [title |-> Null, completed |-> TRUE],
                  [tags |-> <<"x">>]})
    \/ SvcDelete
    \/ SvcToggle

SpecRepo == Init /\ [][NextRepo]_vars

-----------------------------------------------------------------------------
(* Claims about the task service (checked under SpecRepo) *)

AllBodies == UpdateBodies(Fields, MaxFields)

\* an identifier no task ever had
NeverIssued == MaxTasks + 1

\* what each operation returns for a task that does not exist
NotFound(ts) == [ret |-> <<>>, tasks |-> ts, fault |-> FALSE]

\* C1: for every stored task T and every other owner B, get_task_by_id(B, T.id)
\* is None, and update_task, delete_task and toggle_task_completion called with
\* (B, T.id) return None / False, raise nothing and leave the store as it is:
\* exactly what they do for an identifier that no task has.
C1_OwnerScoped ==
    \A T \in tasks : \A B \in Owners \ {T.user_id} :
        /\ get_task_by_id(tasks, B, T.id) = <<>>
        /\ get_task_by_id(tasks, B, T.id) = get_task_by_id(tasks, B, NeverIssued)
        /\ \A body \in AllBodies :
              \A r \in {update_task(tasks, B, T.id, body, now)} :
                  /\ r = NotFound(tasks)
                  /\ r = update_task(tasks, B, NeverIssued, body, now)
        /\ delete_task(tasks, B, T.id) = [ret |-> FALSE, tasks |-> tasks, fault |-> FALSE]
        /\ delete_task(tasks, B, T.id) = delete_task(tasks, B, NeverIssued)
        /\ \A completed \in BOOLEAN :
              /\ toggle_task_completion(tasks, B, T.id, completed, now) = NotFound(tasks)
              /\ toggle_task_completion(tasks, B, T.id, completed, now)
                    = toggle_task_completion(tasks, B, NeverIssued, completed, now)

\* an update aimed at another owner's task was answered not-found
C1_Witness ==
    /\ last.op = "update_task" /\ last.case = "foreign" /\ last.status = 404
    /\ \E T \in tasks : \E B \in Owners : B # T.user_id

\* C8: for every owner and every combination of the status filter (absent,
\* "completed", "incomplete") and the priority filter (absent, "low", "medium",
\* "high"), get_tasks_by_user returns exactly the owner's tasks that satisfy
\* every filter given.
C8_ListFilters ==
    \A owner \in Owners :
        \A status \in Filters({"completed", "incomplete"}) :
            \A priority \in Filters(Priorities) :
                get_tasks_by_user(tasks, owner, status, priority) =
                    {r \in tasks :
                        /\ r.user_id = owner
                        /\ status = <<"completed">> => r.completed = TRUE
                        /\ status = <<"incomplete">> => r.completed = FALSE
                        /\ priority # <<>> => r.priority = priority[1]}

\* a filtered listing returned some of an owner's tasks and left others out
C8_Witness ==
    /\ last.op = "get_tasks_by_user" /\ last.case = "subset"
    /\ \E r, q \in tasks : r.user_id = q.user_id /\ r.completed # q.completed

\* C9: update_task by the owner, when it returns the task, has set exactly the
\* columns the body names to the body's values; title, description, completed
\* and priority not named, id and user_id keep their values; updated_at has not
\* decreased; every other task is as it was.
C9_PartialUpdate ==
    \A T \in tasks : \A body \in AllBodies :
        \A r \in {update_task(tasks, T.user_id, T.id, body, now)} :
            ~r.fault =>
              /\ r.ret # <<>>
              /\ \A c \in Columns :
                    r.ret[1][c] = IF c \in DOMAIN body THEN body[c] ELSE T[c]
              /\ r.ret[1].id = T.id
              /\ r.ret[1].user_id = T.user_id
              /\ r.ret[1].updated_at >= T.updated_at
              /\ r.ret[1] \in r.tasks
              /\ r.tasks \ {r.ret[1]} = tasks \ {T}

\* an owner's update went through at a later time than the task's creation,
\* with another task in the store
C9_Witness ==
    /\ last.op = "update_task" /\ last.case = "own" /\ last.status = 200
    /\ Cardinality(tasks) = 2
    /\ \E T \in tasks : T.title = "b" /\ T.updated_at = now /\ now > 0

-----------------------------------------------------------------------------
(* Claims about the task endpoints (checked under Spec) *)

\* every spelling of a user identifier a path can carry
PathTexts == UserTexts \cup {<<"upper", n>> : n \in 1 .. Cardinality(Emails)}

\* every spelling of a task identifier a path can carry
TaskPathTexts == TaskTexts \cup {Str(NeverIssued)}

OneFieldBodies == UpdateBodies(Fields, 1)

SomeCreateBody == [title |-> "a", description |-> Null, completed |-> FALSE,
                   priority |-> Null]

\* what the claims read of a response
Outcome(r) == [status |-> r.status, db |-> r.db, tasks |-> r.tasks]

\* the outcomes of the six task endpoints for one request line
TaskResponses(header, user_id, task_id) ==
    {Outcome(get_tasks(tasks, header, user_id, status, <<>>, now)) :
        status \in Filters({"completed"})}
    \cup {Outcome(create_task_endpoint(tasks, header, user_id, SomeCreateBody,
                                       ntasks + 1, now)),
          Outcome(get_task(tasks, header, user_id, task_id, now)),
          Outcome(delete_task_endpoint(tasks, header, user_id, task_id, now))}
    \cup {Outcome(update_task_endpoint(tasks, header, user_id, task_id, body, now)) :
            body \in OneFieldBodies}
    \cup {Outcome(toggle_task_completion_endpoint(tasks, header, user_id, task_id,
                                                  completed, now)) :
            completed \in BOOLEAN}

\* C2: on each of the six task endpoints a request whose token verifies and
\* whose subject is not the path's owner_id is answered 401 with no call to the
\* task service and the store as it was, whatever the task_id and whether or
\* not such a task exists; and a 404 goes only to a request whose token
\* verifies with a subject equal to the path's owner_id.
C2_AuthzFirst ==
    /\ \A header \in AllHeaders, user_id \in PathTexts, task_id \in TaskPathTexts :
          \A gate \in {JWTBearer(header, now)} :
              \A r \in TaskResponses(header, user_id, task_id) :
                  /\ (gate.status = 200 /\ Sub(gate) # user_id)
                        => (r.status = 401 /\ r.db = 0 /\ r.tasks = tasks)
                  /\ r.status = 404 => (gate.status = 200 /\ Sub(gate) = user_id)
    /\ last.case \in {"mismatch", "mismatch_hit"} => (last.status = 401 /\ last.db = 0)
    /\ last.status = 404 /\ last.op # "me"
          => last.case \in {"foreign", "deleted", "absent"}

\* a GET with a verified token of one user, on the path of another user and
\* one of that user's stored tasks, was answered 401
C2_Witness ==
    /\ last.op = "get_task" /\ last.case = "mismatch_hit"
    /\ last.status = 401 /\ last.db = 0

\* the task identifiers handed out whose row is gone
Deleted == {id \in 1 .. ntasks : \A r \in tasks : r.id # id}

\* what delete_task returns and leaves, and what the endpoints answer about a
\* deleted identifier
DeleteOutcome ==
    /\ \A owner \in Owners, id \in 1 .. NeverIssued :
          \A rows \in {{r \in tasks : r.id = id /\ r.user_id = owner}} :
              /\ Cardinality(rows) <= 1
              /\ delete_task(tasks, owner, id) =
                    IF rows # {}
                    THEN [ret |-> TRUE, tasks |-> tasks \ rows, fault |-> FALSE]
                    ELSE [ret |-> FALSE, tasks |-> tasks, fault |-> FALSE]
    /\ \A id \in Deleted, header \in LoginHeaders :
          \A user_id \in {Sub(JWTBearer(header, now))} :
              /\ get_task(tasks, header, user_id, Str(id), now).status = 404
              /\ \A r \in {delete_task_endpoint(tasks, header, user_id, Str(id), now)} :
                    r.status = 404 /\ r.tasks = tasks
              /\ \A body \in OneFieldBodies :
                    \A r \in {update_task_endpoint(tasks, header, user_id, Str(id),
                                                   body, now)} :
                        r.status = 404 /\ r.tasks = tasks
              /\ \A completed \in BOOLEAN :
                    \A r \in {toggle_task_completion_endpoint(tasks, header, user_id,
                                                              Str(id), completed, now)} :
                        r.status = 404 /\ r.tasks = tasks
    /\ last.case = "deleted" => last.status = 404

\* C10: delete_task(owner, task_id) returns True exactly when a task with that
\* id of that owner is stored, and then removes that row and no other;
\* otherwise it returns False and changes nothing.  For a deleted identifier,
\* GET, DELETE, update and toggle by any authorised user answer 404 and leave
\* the store alone, and no step makes a deleted identifier stored again.
C10_DeleteSemantics == [](DeleteOutcome) /\ [][Deleted \subseteq Deleted']_vars

\* a DELETE was repeated on a deleted task and answered 404
C10_Witness ==
    /\ last.op = "delete_task" /\ last.case = "deleted" /\ last.status = 404
    /\ Deleted # {}

-----------------------------------------------------------------------------
(* Authentication over time: registration, login, the gate in front of      *)
(* /auth/me and of a task endpoint, with every kind of header, while the     *)
(* clock passes the expiry of the tokens issued.                             *)

\* the instants the clock visits: before, at and after the expiry of a token
\* issued at 0
AuthInstants == {1, LOGIN_TTL_DAYS, LOGIN_TTL_DAYS + 1}

NextAuth ==
    \/ Tick(AuthInstants)
    \/ Register(Emails, {"secret1"})
    \/ Login(Passwords)
    \/ Me(AllHeaders)
    \/ CreateTask(LoginHeaders, {SomeCreateBody})
    \/ GetTask(AllHeaders)

SpecAuth == Init /\ [][NextAuth]_vars

-----------------------------------------------------------------------------
(* Claims about tokens and the gate (checked under SpecAuth) *)

\* the times a token is verified at
VerifyInstants == 0 .. (2 * LOGIN_TTL_DAYS + 2)

\* the expires_delta a caller passes: none, or a positive number of days
Deltas == {<<>>, <<1>>, <<LOGIN_TTL_DAYS>>}

\* the payload verify_token returns for a token that verifies
Claims(token) == <<[sub |-> token.sub, email |-> token.email, exp |-> token.exp]>>

C6_IdentityGate ==
    /\ \A header \in AllHeaders :
          \A gate \in {JWTBearer(header, now)} :
              /\ gate.status \in {200, 401}
              /\ gate.status = 401 <=>
                    \/ header = NoHeader
                    \/ header.scheme # "Bearer"
                    \/ verify_token(header.credentials[1], now) = <<>>
              /\ gate.status = 401 =>
                    /\ gate.token_data = <<>>
                    /\ get_current_user(users, header, now).status = 401
                    /\ \A user_id \in UserTexts, task_id \in TaskTexts :
                          \A r \in TaskResponses(header, user_id, task_id) :
                              r.status = 401 /\ r.db = 0 /\ r.tasks = tasks
              /\ gate.status = 200 =>
                    /\ gate.token_data = Claims(header.credentials[1])
                    /\ header.credentials[1] \in tokens
    /\ last.case = "unauthenticated" => (last.status = 401 /\ last.db = 0)

\* a GET carrying a rejected header was answered 401 while an issued token
\* has reached its expiry
C6_Witness ==
    /\ last.op = "get_task" /\ last.case = "unauthenticated"
    /\ last.status = 401 /\ last.db = 0
    /\ \E k \in tokens : k.exp <= now

-----------------------------------------------------------------------------
(* Several service instances against one database.  Each request has its    *)
(* own session (get_db); a handler's SELECT and its commit are separate      *)
(* statements, and between them the other instance's statements may run.     *)
(* sess[i] is the request instance i is serving: idle, "loaded" between the  *)
(* SELECT and the commit, "done" after the commit of a task mutation that    *)
(* another request overlapped.  A request records the store it read (seen)   *)
(* and whether another request was in flight during its own span (overlap).  *)

Request(op, user_id, task_id, arg, found, obj) ==
    [pc |-> "loaded", op |-> op, user_id |-> user_id, task_id |-> task_id,
     arg |-> arg, found |-> found, obj |-> obj, seen |-> tasks, overlap |-> FALSE]

Free(i) == sess[i].pc # "loaded"

\* instance i starts serving rec; requests in flight now overlap with it
Start(i, rec) ==
    sess' = [k \in Instances |->
                IF k = i
                THEN [rec EXCEPT !.overlap = \E j \in Instances \ {i} : ~Free(j)]
                ELSE IF ~Free(k) THEN [sess[k] EXCEPT !.overlap = TRUE]
                ELSE sess[k]]

Finish(i) == sess' = [sess EXCEPT ![i] = Idle]

\* register_user up to db.add: the SELECT by email, and the 400 when it finds
\* a row
BeginRegister(emails, passwords) ==
    \E i \in Instances, email \in emails, password \in passwords :
        /\ Free(i)
        /\ IF UserByEmail(users, email) # <<>>
           THEN /\ Finish(i)
                /\ last' = Last("register", 400, "claimed", 1)
           ELSE /\ Start(i, Request("register", 0, 0, <<>>, <<>>,
                                    [email |-> email,
                                     hashed_password |-> get_password_hash(password)]))
                /\ UNCHANGED last
        /\ UNCHANGED <<users, tasks, ntasks, now, tokens>>

\* register_user from db.commit(): the INSERT; an IntegrityError is not
\* caught and becomes a 500
CommitRegister ==
    \E i \in Instances :
        /\ ~Free(i) /\ sess[i].op = "register"
        /\ \E done \in {InsertUser(users, [id |-> Cardinality(users) + 1,
                                           email |-> sess[i].obj.email,
                                           hashed_password |-> sess[i].obj.hashed_password])} :
              /\ users' = done.users
              /\ last' = Last("register", IF done.fault THEN 500 ELSE 200,
                              IF UserByEmail(users, sess[i].obj.email) # <<>>
                              THEN "claimed" ELSE "fresh", 1)
        /\ Finish(i)
        /\ UNCHANGED <<tasks, ntasks, now, tokens>>

\* create_task: one INSERT, nothing read before it
ConcCreate(bodies) ==
    /\ ntasks < MaxShared
    /\ \E i \in Instances, user_id \in Owners, task_data \in bodies :
        /\ Free(i)
        /\ tasks' = create_task(tasks, user_id, task_data, ntasks + 1, now).tasks
        /\ ntasks' = ntasks + 1
        /\ last' = Last("create_task", 200, "own", 1)
        /\ Finish(i)
        /\ UNCHANGED <<users, now, tokens>>

\* the SELECT of get_task_by_id in a mutation; None ends the request (404)
BeginMutation(i, op, user_id, task_id, arg) ==
    /\ Free(i)
    /\ \E found \in {get_task_by_id(tasks, user_id, task_id)} :
          IF found = <<>>
          THEN /\ Finish(i)
               /\ last' = Last(op, 404, Target(tasks, ntasks, user_id, task_id), 1)
          ELSE /\ Start(i, Request(op, user_id, task_id, arg, found,
                                   IF op = "update_task" THEN SetAttrs(found[1], arg)
                                   ELSE IF op = "toggle_task_completion"
                                   THEN [found[1] EXCEPT !.completed = arg]
                                   ELSE found[1]))
               /\ UNCHANGED last
    /\ UNCHANGED <<users, tasks, ntasks, now, tokens>>

BeginUpdate(bodies) ==
    \E i \in Instances, user_id \in Owners, task_id \in TaskIds, task_data \in bodies :
        BeginMutation(i, "update_task", user_id, task_id, task_data)

BeginToggle(completeds) ==
    \E i \in Instances, user_id \in Owners, task_id \in TaskIds, completed \in completeds :
        BeginMutation(i, "toggle_task_completion", user_id, task_id, completed)

BeginDelete ==
    \E i \in Instances, user_id \in Owners, task_id \in TaskIds :
        BeginMutation(i, "delete_task", user_id, task_id, <<>>)

\* db.commit() and, for update and toggle, db.refresh(task): an exception of
\* either is not caught and becomes a 500
CommitMutation ==
    \E i \in Instances :
        /\ ~Free(i) /\ sess[i].op # "register"
        /\ \E r \in {IF sess[i].op = "delete_task"
                     THEN [tasks |-> FlushDelete(tasks, sess[i].found[1]), fault |-> FALSE]
                     ELSE LET done == FlushUpdate(tasks, sess[i].found[1], sess[i].obj, now)
                          IN  [tasks |-> done.tasks,
                               fault |-> done.fault
                                         \/ Refresh(done.tasks, sess[i].found[1]) = <<>>]} :
              /\ tasks' = r.tasks
              /\ last' = Last(sess[i].op, IF r.fault THEN 500 ELSE 200,
                              Target(tasks, ntasks, sess[i].user_id, sess[i].task_id), 1)
        /\ sess' = [sess EXCEPT ![i] =
                        IF sess[i].overlap
                        THEN [sess[i] EXCEPT !.pc = "done", !.found = <<>>, !.obj = <<>>]
                        ELSE Idle]
        /\ UNCHANGED <<users, ntasks, now, tokens>>

NextConc ==
    \/ BeginRegister(Emails, {"secret1"})
    \/ CommitRegister
    \/ Login({"secret1"})
    \/ ConcCreate({[title |-> "a", description |-> Null, completed |-> FALSE,
                    priority |-> "low"]})
    \/ BeginUpdate({[title |-> "b", priority |-> "low"],
                    [title |-> "a", priority |-> "high"]})
    \/ BeginToggle({TRUE})
    \/ BeginDelete
    \/ CommitMutation

SpecConc == Init /\ [][NextConc]_vars

-----------------------------------------------------------------------------
(* Claims about concurrent requests (checked under SpecConc) *)

\* C3: a register request for an email no registration has claimed succeeds,
\* users registered under distinct emails have distinct identifiers, and a
\* register request for an email already claimed when it is answered gets the
\* Conflict error 400, also when the two requests ran concurrently.
C3_RegisterConflict ==
    /\ \A u, v \in users : u.email # v.email => u.id # v.id
    /\ last.op = "register" /\ last.case = "fresh" => last.status = 200
    /\ last.op = "register" /\ last.case = "claimed" => last.status = 400

\* C4: no two User rows share an email (compared as stored, case-sensitive)
\* and no two share an id, whatever registrations, logins and task requests
\* the instances have interleaved.
C4_UniqueUsers ==
    \A u, v \in users : (u.email = v.email \/ u.id = v.id) => u = v

\* both spellings of the address are registered, and the latest registration,
\* racing with another for the same email, was refused at its commit
C4_Witness ==
    /\ {u.email : u \in users} = Emails
    /\ last.op = "register" /\ last.case = "claimed" /\ last.status = 500

\* the store after request s runs alone, start to end, on store ts
Alone(s, ts) ==
    IF s.op = "update_task"
    THEN update_task(ts, s.user_id, s.task_id, s.arg, now).tasks
    ELSE IF s.op = "toggle_task_completion"
    THEN toggle_task_completion(ts, s.user_id, s.task_id, s.arg, now).tasks
    ELSE delete_task(ts, s.user_id, s.task_id).tasks

\* the row of task id in store ts, if any
Row(ts, id) == {r \in ts : r.id = id}

\* C7: when two mutations of the same task by the same owner, both started
\* from the same store, have overlapped and both have committed, the stored
\* task is what running the two one after the other, in one of the two
\* orders, leaves.
C7_SerialOutcome ==
    \A i, j \in Instances :
        ( /\ i # j
          /\ sess[i].pc = "done" /\ sess[j].pc = "done"
          /\ sess[i].overlap /\ sess[j].overlap
          /\ sess[i].seen = sess[j].seen
          /\ sess[i].user_id = sess[j].user_id
          /\ sess[i].task_id = sess[j].task_id )
        => Row(tasks, sess[i].task_id) \in
              {Row(Alone(sess[j], Alone(sess[i], sess[i].seen)), sess[i].task_id),
               Row(Alone(sess[i], Alone(sess[j], sess[i].seen)), sess[i].task_id)}

-----------------------------------------------------------------------------
(* Further claims about the task endpoints (checked under Spec) *)

\* C11: toggle_task_completion(owner, task_id, completed) on a task of that
\* owner returns the task with completed set to the given value and title,
\* description, priority, id and user_id as they were, and leaves every other
\* task alone; and for a logged-in owner, PATCH .../complete?completed=true
\* followed by GET of the task answers completed = true and the priority the
\* task was created with.
C11_ToggleFrame ==
    /\ \A T \in tasks, completed \in BOOLEAN :
          \A r \in {toggle_task_completion(tasks, T.user_id, T.id, completed, now)} :
              /\ ~r.fault /\ r.ret # <<>>
              /\ r.ret[1] = [T EXCEPT !.completed = completed,
                                      !.updated_at = r.ret[1].updated_at]
              /\ r.ret[1] \in r.tasks
              /\ r.tasks \ {r.ret[1]} = tasks \ {T}
    /\ \A header \in LoginHeaders, T \in tasks :
          (JWTBearer(header, now).status = 200
              /\ Sub(JWTBearer(header, now)) = Str(T.user_id))
          => \A r \in {toggle_task_completion_endpoint(tasks, header, Str(T.user_id),
                                                       Str(T.id), TRUE, now)} :
                /\ r.status = 200
                /\ \A g \in {get_task(r.tasks, header, Str(T.user_id), Str(T.id), now)} :
                      /\ g.status = 200
                      /\ g.data[1].completed = TRUE
                      /\ g.data[1].priority = T.priority

\* a logged-in owner's toggle of a task created with priority "low" went
\* through, and the task is stored completed with priority "low"
C11_Witness ==
    /\ last.op = "toggle_task_completion" /\ last.case = "own" /\ last.status = 200
    /\ \E T \in tasks : T.completed = TRUE /\ T.priority = "low"

\* the outcomes of the two endpoints whose path has an owner only
OwnerResponses(header, user_id) ==
    {Outcome(get_tasks(tasks, header, user_id, status, <<>>, now)) :
        status \in Filters({"completed"})}
    \cup {Outcome(create_task_endpoint(tasks, header, user_id, SomeCreateBody,
                                       ntasks + 1, now))}

\* the outcomes of the four endpoints whose path has an owner and a task
ItemResponses(header, user_id, task_id) ==
    {Outcome(get_task(tasks, header, user_id, task_id, now)),
     Outcome(delete_task_endpoint(tasks, header, user_id, task_id, now))}
    \cup {Outcome(update_task_endpoint(tasks, header, user_id, task_id, body, now)) :
            body \in OneFieldBodies}
    \cup {Outcome(toggle_task_completion_endpoint(tasks, header, user_id, task_id,
                                                  completed, now)) :
            completed \in BOOLEAN}

\* C12 as stated: an authenticated request whose path has an owner_id or a
\* task_id that is no well-formed UUID is answered 400 on every task endpoint,
\* with no call to the task service.
C12_Malformed400 ==
    \A header \in LoginHeaders, user_id \in PathTexts, task_id \in TaskPathTexts :
        JWTBearer(header, now).status = 200 =>
            /\ UUID(user_id) = <<>> =>
                  \A r \in OwnerResponses(header, user_id)
                           \cup ItemResponses(header, user_id, task_id) :
                      r.status = 400 /\ r.db = 0
            /\ UUID(task_id) = <<>> =>
                  \A r \in ItemResponses(header, user_id, task_id) :
                      r.status = 400 /\ r.db = 0

\* What the handlers do with such a request: it never reaches the task
\* service and leaves the store alone; it is answered 400 when the path's
\* owner_id is the token's subject, character for character, and 401 when it
\* is not, which is the case of every malformed owner_id under a token that
\* login issued.
MalformedOutcome ==
    /\ \A header \in LoginHeaders, user_id \in PathTexts, task_id \in TaskPathTexts :
          \A gate \in {JWTBearer(header, now)} :
              gate.status = 200 =>
                  /\ UUID(Sub(gate)) # <<>>
                  /\ \A r \in (IF UUID(user_id) = <<>>
                               THEN OwnerResponses(header, user_id) ELSE {})
                              \cup (IF UUID(user_id) = <<>> \/ UUID(task_id) = <<>>
                                    THEN ItemResponses(header, user_id, task_id) ELSE {}) :
                        /\ r.db = 0 /\ r.tasks = tasks
                        /\ r.status = IF Sub(gate) = user_id THEN 400 ELSE 401
    /\ last.case = "malformed" => (last.status = 400 /\ last.db = 0)

-----------------------------------------------------------------------------
(* Further claims about authentication (checked under SpecAuth) *)

\* the emails a login form can carry: the registrable ones and a stranger's
LoginEmails == Emails \cup {"nobody@x"}

LoginFailure == [status |-> 401, detail |-> "Incorrect email or password", data |-> <<>>]

\* what login answers, in every state, for every email and password
LoginOutcome ==
    /\ \A p, q \in Passwords :
          verify_password(q, get_password_hash(p)) <=> (q = p)
    /\ \A email \in LoginEmails, password \in Passwords :
          \A r \in {login_user(users, email, password, now)} :
              \A matching \in {{u \in users : /\ u.email = email
                                              /\ u.hashed_password.of = password}} :
                  /\ r.status = 200 <=> matching # {}
                  /\ r.status = 200 =>
                        \E u \in matching :
                            /\ r.data # <<>>
                            /\ r.data[1].sub = Str(u.id)
                            /\ r.data[1].email = u.email
                            /\ verify_token(r.data[1], now) = Claims(r.data[1])
                  /\ r.status # 200 => r = LoginFailure
    /\ \A k \in tokens : \E u \in users : k.sub = Str(u.id) /\ k.email = u.email

\* C13: login succeeds exactly when a user with that email is registered and
\* the password is the one given at that registration (verify(p, hash(p)) is
\* true, verify(q, hash(p)) is false for q # p); the token then carries that
\* user's id as subject and that user's email; otherwise the answer is the
\* one 401 error, whether the email is unknown or the password wrong, and no
\* token is issued; and a login changes neither users nor tasks.
C13_Login ==
    /\ [](LoginOutcome)
    /\ [][last'.op = "login" =>
            /\ users' = users /\ tasks' = tasks
            /\ last'.status # 200 => tokens' = tokens]_vars

\* a login with the wrong password for a registered email was answered 401
\* while another login has issued a token
C13_Witness ==
    /\ last.op = "login" /\ last.status = 401
    /\ {u.email : u \in users} = Emails
    /\ tokens # {}

-----------------------------------------------------------------------------
(* Further claims about the task service (checked under SpecRepo) *)

\* C14: create_task adds exactly one task and changes no stored task; the new
\* task has the supplied owner, an id no stored task has, the title and
\* description supplied, completed false and priority "medium" when the body
\* names neither; and the record returned is the record stored, id included.
C14_CreateDefaults ==
    \A user_id \in Owners, body \in CreateRequests :
        \A r \in {create_task(tasks, user_id, TaskCreate(body), ntasks + 1, now)} :
            /\ ~r.fault /\ r.ret # <<>>
            /\ \A new \in {r.ret[1]} :
                  /\ new \notin tasks
                  /\ r.tasks = tasks \cup {new}
                  /\ Cardinality(r.tasks) = Cardinality(tasks) + 1
                  /\ new.user_id = user_id
                  /\ \A T \in tasks : T.id # new.id
                  /\ new.title = body.title
                  /\ new.description = (IF "description" \in DOMAIN body
                                        THEN body.description ELSE Null)
                  /\ new.completed = (IF "completed" \in DOMAIN body
                                      THEN body.completed ELSE FALSE)
                  /\ new.priority = (IF "priority" \in DOMAIN body
                                     THEN body.priority ELSE "medium")
                  /\ get_task_by_id(r.tasks, user_id, new.id) = <<new>>

\* a creation from a body that names the title only has stored its task,
\* after an earlier task was deleted and while another is stored
C14_Witness ==
    /\ last.op = "create_task" /\ last.status = 200
    /\ ntasks = MaxTasks /\ Cardinality(tasks) = 1
    /\ \E T \in tasks, user_id \in Owners :
          /\ T.id = ntasks
          /\ <<T>> = create_task(tasks \ {T}, user_id, TaskCreate([title |-> "a"]),
                                 ntasks, T.updated_at).ret

-----------------------------------------------------------------------------
(* Claims about identity and ownership of tasks (checked under Spec) *)

\* request bodies of an update that name the owner or the id of the task,
\* alone or next to a declared field
TransferBodies ==
    {[user_id |-> u] : u \in 1 .. Cardinality(Emails)}
    \cup {[id |-> i] : i \in 1 .. MaxTasks + 1}
    \cup {[user_id |-> u, id |-> i, title |-> "b"] :
             u \in 1 .. Cardinality(Emails), i \in 1 .. MaxTasks + 1}

\* the owner each stored id belongs to in store ts, as a set of pairs
Ownership(ts) == {<<T.id, T.user_id>> : T \in ts}

\* an update whose body names user_id or id leaves every task with its id
\* and its owner, whoever sends it
NoTransfer ==
    /\ \A T, T2 \in tasks : T.id = T2.id => T = T2
    /\ \A header \in LoginHeaders, T \in tasks, body \in TransferBodies :
          \A r \in {update_task_endpoint(tasks, header, Str(T.user_id), Str(T.id),
                                         TaskUpdate(body), now)} :
              Ownership(r.tasks) = Ownership(tasks)

\* C15: over every sequence of requests (registration, login, creation,
\* update, toggle, deletion) a stored task keeps its id and its owner: an id
\* appears only through a creation, under the owner it was created for, and
\* stays with that owner until it is deleted; an update whose body supplies
\* user_id or id transfers nothing; and the set of users only grows.
C15_Ownership ==
    /\ [](NoTransfer)
    /\ [][/\ users \subseteq users'
          /\ \A T \in tasks, T2 \in tasks' : T2.id = T.id => T2.user_id = T.user_id
          /\ \A T2 \in tasks' :
                \/ \E T \in tasks : T.id = T2.id
                \/ last'.op = "create_task" /\ ntasks' = ntasks + 1 /\ T2.id = ntasks'
         ]_vars

\* an owner's update was answered 200 while a second user and a task of each
\* user are stored
C15_Witness ==
    /\ last.op = "update_task" /\ last.case = "own" /\ last.status = 200
    /\ Cardinality(users) = 2
    /\ {T.user_id : T \in tasks} = Owners

-----------------------------------------------------------------------------
(* Claims about a failed update (checked under SpecRepo) *)

\* C16: when update_task fails while persisting (a body with several
\* fields of which the store rejects one, a null title), the stored task is
\* exactly as before: no provided field is persisted, and a later lookup,
\* made after the failed request released its session, finds the old row.
C16_FailedUpdateAtomic ==
    \A T \in tasks, task_data \in UpdateBodies(Fields, MaxFields) :
        \A r \in {update_task(tasks, T.user_id, T.id, task_data, now)} :
            /\ r.fault <=> ("title" \in DOMAIN task_data /\ task_data.title = Null)
            /\ r.fault =>
                  /\ r.tasks = tasks
                  /\ r.ret = <<>>
                  /\ get_task_by_id(r.tasks, T.user_id, T.id) = <<T>>

\* an owner's update naming a null title and completed = true has failed
\* while no stored task is completed
C16_Witness ==
    /\ last.op = "update_task" /\ last.case = "own" /\ last.status = 500
    /\ tasks # {}
    /\ \A T \in tasks : ~T.completed /\ T.title # Null

-----------------------------------------------------------------------------
(* Claims about a deletion racing with an update (checked under SpecConc) *)

Mutations == {"update_task", "toggle_task_completion", "delete_task"}

\* instance i has served a deletion and instance j an update or toggle of
\* the same task of the same owner, the two overlapped, both have committed,
\* and the latest answer given is the answer to the later of the two
DeleteRaced(i, j) ==
    /\ i # j
    /\ sess[i].pc = "done" /\ sess[j].pc = "done"
    /\ sess[i].overlap /\ sess[j].overlap
    /\ sess[i].op = "delete_task"
    /\ sess[j].op \in {"update_task", "toggle_task_completion"}
    /\ sess[i].user_id = sess[j].user_id
    /\ sess[i].task_id = sess[j].task_id
    /\ last.op \in Mutations

\* C17: when a deletion and an update or toggle of the same task by the
\* same owner run concurrently, each request is answered with success or
\* not-found, never with an internal fault, and once both have completed the
\* task is absent.
C17_DeleteRace ==
    \A i, j \in Instances :
        DeleteRaced(i, j) =>
            /\ last.status \in {200, 404}
            /\ Row(tasks, sess[i].task_id) = {}

\* the part of it that holds: once both have completed the task is absent,
\* and an internal fault is the answer to the update or toggle only
DeleteRaceAbsent ==
    \A i, j \in Instances :
        DeleteRaced(i, j) =>
            /\ Row(tasks, sess[i].task_id) = {}
            /\ last.status \in {200, 500}
            /\ last.status = 500 => last.op = sess[j].op /\ last.case = "deleted"

-----------------------------------------------------------------------------
(* Claims about owners and users (checked under SpecAuth) *)

\* every stored task belongs to a stored user, every issued token names a
\* stored user, a creation stores the token's subject as the owner, and
\* get_current_user never answers 404
OwnersExist ==
    /\ \A T \in tasks : T.user_id \in Owners
    /\ \A k \in tokens : UUID(k.sub) # <<>> /\ UUID(k.sub)[1] \in Owners
    /\ \A header \in AllHeaders, user_id \in UserTexts :
          \A r \in {create_task_endpoint(tasks, header, user_id, SomeCreateBody,
                                         ntasks + 1, now)} :
              r.status = 200 =>
                  /\ Str(r.data[1].user_id) = Sub(JWTBearer(header, now))
                  /\ \A T \in r.tasks : T.user_id \in Owners
    /\ \A header \in AllHeaders :
          \A r \in {get_current_user(users, header, now)} :
              /\ r.status \in {200, 401}
              /\ (header \in LoginHeaders /\ JWTBearer(header, now).status = 200)
                    => r.status = 200
    /\ last.op = "me" => last.status \in {200, 401}

\* C18: every stored task's owner is a stored user: tokens are issued by
\* login only, for a registered user, a creation stores only the token's
\* subject as owner, and no operation removes a user; so get_current_user
\* never answers 404 "User not found" to a token that login issued.
C18_OwnersExist ==
    /\ [](OwnersExist)
    /\ [][users \subseteq users' /\ (tokens' # tokens => last'.op = "login")]_vars

\* a logged-in user who owns a task asked who they are, after the clock
\* moved, and was answered 200
C18_Witness ==
    /\ last.op = "me" /\ last.status = 200
    /\ now > 0
    /\ \E k \in tokens, T \in tasks : Str(T.user_id) = k.sub /\ k.exp > now

=============================================================================
